---- MODULE Spec2Model ----
(***************************************************************************)
(* Session layer of the text-adventure server                              *)
(* (src/testing_submission/mcp_server.py): class GameState and the tool    *)
(* functions that dispatch to it.                                          *)
(*                                                                         *)
(* Text is modelled as a sequence of one-character strings, so that        *)
(* strip / split / lower / slicing / startswith act on characters as the   *)
(* Python code does.  The game engine (games.zork_env.TextAdventureEnv) is *)
(* not part of the session layer; it is modelled as a tiny deterministic   *)
(* two-room game that honours the reset/step/get_state/set_state contract, *)
(* and any engine call may raise.                                          *)
(***************************************************************************)
EXTENDS Integers, Sequences, FiniteSets, TLC

VARIABLES
    game_name,           \* self.game_name
    env,                 \* the engine's internal state (self.env)
    dictionary,          \* the engine's vocabulary table (env.get_dictionary())
    state,               \* self.state: the cached transition
    history,             \* self.history
    explored_locations,  \* self.explored_locations: location -> set of edges
    current_location,    \* self.current_location
    saved_states,        \* self.saved_states: slot name -> engine snapshot
    response,            \* what the last tool call returned (or that it raised)
    call,                \* the last tool call: name, argument, engine calls made
    log,                 \* every (action, result) pair take_action has recorded
    before               \* current_location and graph as they were before the call

vars == <<game_name, env, dictionary, state, history, explored_locations, current_location,
          saved_states, response, call, log, before>>

session == <<game_name, env, state, history, explored_locations, current_location,
             saved_states>>

(***************************************************************************)
(* Bounds of the exploration.                                              *)
(***************************************************************************)
MaxActions == 2
MaxMoves == 3
LongActions == 52
LongMoves == 54
LongFree == 2
MaxTokens == 3
MaxPieces == 4

(***************************************************************************)
(* Characters and the str methods the code uses.                           *)
(***************************************************************************)
NL == "\n"

\* the characters str.strip() removes, as far as a string here can hold them:
\* tab, line feed, vertical tab, form feed, carriage return, the separators
\* FS GS RS US, and the space
VT == ""

FS == ""

GS == ""

RS == ""

US == ""

Whitespace == {"\t", NL, VT, "\f", "\r", FS, GS, RS, US, " "}

Uppers == <<"A","B","C","D","E","F","G","H","I","J","K","L","M",
            "N","O","P","Q","R","S","T","U","V","W","X","Y","Z">>

Lowers == <<"a","b","c","d","e","f","g","h","i","j","k","l","m",
            "n","o","p","q","r","s","t","u","v","w","x","y","z">>

LowerChar(c) ==
    IF \E i \in 1..26 : Uppers[i] = c
    THEN Lowers[CHOOSE i \in 1..26 : Uppers[i] = c]
    ELSE c

\* str.lower()
Lower(s) == [i \in 1..Len(s) |-> LowerChar(s[i])]

\* s[:n]
Take(s, n) == IF n >= Len(s) THEN s ELSE SubSeq(s, 1, n)

\* s[i:] with a 0-based i
Drop(s, i) == IF i >= Len(s) THEN <<>> ELSE SubSeq(s, i + 1, Len(s))

\* str.strip()
Strip(s) ==
    LET keep == {i \in 1..Len(s) : s[i] \notin Whitespace}
    IN  IF keep = {} THEN <<>>
        ELSE LET lo == CHOOSE i \in keep : \A j \in keep : i <= j
                 hi == CHOOSE i \in keep : \A j \in keep : j <= i
             IN  SubSeq(s, lo, hi)

\* w.startswith(p)
StartsWith(w, p) == Len(p) <= Len(w) /\ SubSeq(w, 1, Len(p)) = p

\* the 0-based positions at which sub occurs in s
Occurrences(s, sub) ==
    {i \in 0..(Len(s) - Len(sub)) : SubSeq(s, i + 1, i + Len(sub)) = sub}

\* sub in s
Contains(s, sub) == Occurrences(s, sub) # {}

\* s.index(sub), for a sub that occurs
IndexOf(s, sub) ==
    CHOOSE i \in Occurrences(s, sub) : \A j \in Occurrences(s, sub) : i <= j

\* s.split(sep) for a one-character sep: the pieces between the separators
RECURSIVE Split(_, _)
Split(s, sep) ==
    IF Contains(s, <<sep>>)
    THEN LET i == IndexOf(s, <<sep>>)
         IN  <<Take(s, i)>> \o Split(Drop(s, i + 1), sep)
    ELSE <<s>>

\* s.split(sep, 1): at most one split
Split1(s, sep) ==
    IF Contains(s, <<sep>>)
    THEN LET i == IndexOf(s, <<sep>>)
         IN  <<Take(s, i), Drop(s, i + 1)>>
    ELSE <<s>>

\* sep.join(parts)
RECURSIVE Join(_, _)
Join(sep, parts) ==
    IF parts = <<>> THEN <<>>
    ELSE IF Len(parts) = 1 THEN parts[1]
    ELSE parts[1] \o sep \o Join(sep, Tail(parts))

\* s[-n:] for a list
LastN(s, n) == IF Len(s) <= n THEN s ELSE SubSeq(s, Len(s) - n + 1, Len(s))


(***************************************************************************)
(* The engine: games.zork_env.TextAdventureEnv, which the session layer    *)
(* only calls.  Modelled as a small game: two rooms, a lamp worth 5        *)
(* points in the hall, a teleport word and a fatal jump.                   *)
(***************************************************************************)
HallObs == <<"H","a","l","l","\n","B","i","g",".">>

\* a blank line first and a space after the room name
DenObs == <<"\n","D","e","n"," ","\n","D","a","r","k",".","\n">>

BlockedObs == <<"B","l","o","c","k","e","d",".">>

TakenObs == <<"T","a","k","e","n",".">>

WhatObs == <<"W","h","a","t","?">>

DeadObs == <<"D","e","a","d",".">>

LampDescriptor == <<"O","b","j","5",":"," ","l","a","m","p"," ","P","a","r","e","n","t","4">>

LampPoints == 5

\* the engine's vocabulary table for the game
GameDictionary == <<<<"l","a","m","p">>, <<"l","a","n","t","e","r">>, <<"x","y","z","z","y">>>>

\* the action texts the callers of this model send
Look == <<"l","o","o","k">>

North == <<"n","o","r","t","h">>

TakeLamp == <<"t","a","k","e"," ","l","a","m","p">>

Xyzzy == <<"x","y","z","z","y">>

Jump == <<"j","u","m","p">>

RoomObs(room) == IF room = "hall" THEN HallObs ELSE DenObs

OtherRoom(room) == IF room = "hall" THEN "den" ELSE "hall"

EnvInit == [room |-> "hall", lamp |-> FALSE, score |-> 0, moves |-> 0, done |-> FALSE]

Inventory(e) == IF e.lamp THEN <<LampDescriptor>> ELSE <<>>

Transition(e, obs, reward) ==
    [observation |-> obs, score |-> e.score, moves |-> e.moves, reward |-> reward,
     done |-> e.done, inventory |-> Inventory(e)]

\* env.reset()
EngineReset == Transition(EnvInit, HallObs, 0)

\* the engine state after env.step(action)
EngineNext(e, action) ==
    IF e.done THEN e
    ELSE LET m == [e EXCEPT !.moves = @ + 1]
         IN  CASE action = North /\ e.room = "hall" -> [m EXCEPT !.room = "den"]
               [] action = Xyzzy -> [m EXCEPT !.room = OtherRoom(e.room)]
               [] action = TakeLamp /\ e.room = "hall" /\ ~e.lamp ->
                      [m EXCEPT !.lamp = TRUE, !.score = @ + LampPoints]
               [] action = Jump -> [m EXCEPT !.done = TRUE]
               [] OTHER -> m

\* the transition env.step(action) returns
EngineStep(e, action) ==
    LET n == EngineNext(e, action)
    IN  IF e.done THEN Transition(n, DeadObs, 0)
        ELSE CASE action = Look -> Transition(n, RoomObs(n.room), 0)
               [] action = North ->
                      IF n.room # e.room THEN Transition(n, RoomObs(n.room), 0)
                      ELSE Transition(n, BlockedObs, 0)
               [] action = Xyzzy -> Transition(n, RoomObs(n.room), 0)
               [] action = TakeLamp ->
                      IF n.lamp # e.lamp THEN Transition(n, TakenObs, LampPoints)
                      ELSE Transition(n, WhatObs, 0)
               [] action = Jump -> Transition(n, DeadObs, 0)
               [] OTHER -> Transition(n, WhatObs, 0)

\* env.get_valid_actions()
EngineValidActions(e) ==
    IF e.done THEN <<>>
    ELSE IF e.room = "hall" THEN <<North, TakeLamp>> ELSE <<Xyzzy>>

(***************************************************************************)
(* GameState                                                               *)
(***************************************************************************)
\* the process environment when the module is imported: GAME unset, or set
Unset == [name \in {} |-> ""]

Environs == {Unset, [GAME |-> "advent"], [GAME |-> ""], [GAME |-> "zork1"]}

\* os.environ.get("GAME", "zork1")
INITIAL_GAME(environ) == IF "GAME" \in DOMAIN environ THEN environ.GAME ELSE "zork1"

HistoryMax == 50

RecentMax == 5

ExcerptMax == 60

PrefixMax == 6

Unknown == <<"U","n","k","n","o","w","n">>

\* the first line of the observation as it stands, nothing stripped
ExtractLocationUnstripped(observation) ==
    LET lines == Split(observation, NL)
    IN  IF lines # <<>> THEN lines[1] ELSE Unknown

\* GameState._extract_location
ExtractLocation(observation) ==
    LET lines == Split(Strip(observation), NL)
    IN  IF lines # <<>> THEN lines[1] ELSE Unknown

\* the list literal in take_action
MovementActions ==
    {<<"n","o","r","t","h">>,
     <<"s","o","u","t","h">>,
     <<"e","a","s","t">>,
     <<"w","e","s","t">>,
     <<"u","p">>,
     <<"d","o","w","n">>,
     <<"e","n","t","e","r">>,
     <<"e","x","i","t">>,
     <<"n">>,
     <<"s">>,
     <<"e">>,
     <<"w">>,
     <<"u">>,
     <<"d">>}

\* history trimming in take_action
TrimHistoryOldest(h) == IF Len(h) > HistoryMax THEN Take(h, HistoryMax) ELSE h

TrimHistory(h) == IF Len(h) > HistoryMax THEN LastN(h, HistoryMax) ELSE h

\* f"{action} -> {new_location}"
Edge(action, location) == action \o <<" ","-",">"," ">> \o location

\* the "Update map" block of take_action
UpdateMapUnderNew(g, cur, action, new) ==
    IF action \in MovementActions
    THEN LET g1 == IF new \notin DOMAIN g THEN g @@ (new :> {}) ELSE g
         IN  IF new # cur THEN [g1 EXCEPT ![new] = @ \cup {Edge(action, new)}] ELSE g1
    ELSE g

UpdateMapAnyAction(g, cur, action, new) ==
    LET g1 == IF cur \notin DOMAIN g THEN g @@ (cur :> {}) ELSE g
    IN  IF new # cur THEN [g1 EXCEPT ![cur] = @ \cup {Edge(action, new)}] ELSE g1

UpdateMapKeyWithEdge(g, cur, action, new) ==
    IF action \in MovementActions /\ new # cur
    THEN LET g1 == IF cur \notin DOMAIN g THEN g @@ (cur :> {}) ELSE g
         IN  [g1 EXCEPT ![cur] = @ \cup {Edge(action, new)}]
    ELSE g

UpdateMapSelfEdges(g, cur, action, new) ==
    IF action \in MovementActions
    THEN LET g1 == IF cur \notin DOMAIN g THEN g @@ (cur :> {}) ELSE g
         IN  [g1 EXCEPT ![cur] = @ \cup {Edge(action, new)}]
    ELSE g

UpdateMap(g, cur, action, new) ==
    IF action \in MovementActions
    THEN LET g1 == IF cur \notin DOMAIN g THEN g @@ (cur :> {}) ELSE g
         IN  IF new # cur THEN [g1 EXCEPT ![cur] = @ \cup {Edge(action, new)}] ELSE g1
    ELSE g

\* what play_action returns: result + score_info + done_info
PlayActionTextStaleDone(result, st) ==
    [result |-> result,
     score_info |-> IF st.reward > 0
                    THEN <<"\n\n+", st.reward, " points! (Total: ", st.score, ")">>
                    ELSE <<"\n\n[Score: ", st.score, " | Moves: ", st.moves, "]">>,
     done_info |-> IF state.done THEN "\n\nGAME OVER" ELSE ""]

PlayActionText(result, st) ==
    [result |-> result,
     score_info |-> IF st.reward > 0
                    THEN <<"\n\n+", st.reward, " points! (Total: ", st.score, ")">>
                    ELSE <<"\n\n[Score: ", st.score, " | Moves: ", st.moves, "]">>,
     done_info |-> IF st.done THEN "\n\nGAME OVER" ELSE ""]

Before == [location |-> current_location, graph |-> explored_locations]

\* GameState.__init__ (get_game on first use), in a process started with GAME unset
Init ==
    /\ game_name = INITIAL_GAME(Unset)
    /\ env = EnvInit
    /\ dictionary = GameDictionary
    /\ state = EngineReset
    /\ history = <<>>
    /\ explored_locations = <<>>
    /\ current_location = ExtractLocation(EngineReset.observation)
    /\ saved_states = <<>>
    /\ response = [kind |-> "none"]
    /\ call = [op |-> "init", arg |-> <<>>, engine |-> <<>>]
    /\ log = <<>>
    /\ before = [location |-> ExtractLocation(EngineReset.observation), graph |-> <<>>]

\* play_action -> GameState.take_action, the engine's step returning
TakeActionOk(action) ==
    LET st == EngineStep(env, action)
        result == st.observation
        new_location == ExtractLocation(result)
    IN  /\ env' = EngineNext(env, action)
        /\ state' = st
        /\ history' = TrimHistory(Append(history, <<action, result>>))
        /\ explored_locations' =
               UpdateMap(explored_locations, current_location, action, new_location)
        /\ current_location' = new_location
        /\ response' = [kind |-> "play_action", text |-> PlayActionText(result, st)]
        /\ call' = [op |-> "play_action", arg |-> action,
                    engine |-> << <<"step", action>> >>]
        /\ log' = Append(log, <<action, result>>)
        /\ before' = Before
        /\ UNCHANGED <<game_name, dictionary, saved_states>>

\* take_action that files the action and the location before it steps the engine
TakeActionRaisesRecorded(action) ==
    /\ history' = TrimHistory(Append(history, <<action, state.observation>>))
    /\ explored_locations' =
           UpdateMap(explored_locations, current_location, action, current_location)
    /\ response' = [kind |-> "raised"]
    /\ call' = [op |-> "play_action", arg |-> action,
                engine |-> << <<"step", action>> >>]
    /\ before' = Before
    /\ UNCHANGED <<env, game_name, dictionary, state, current_location, saved_states, log>>

\* play_action -> GameState.take_action, the engine's step raising: nothing is
\* assigned and the exception leaves play_action
TakeActionRaises(action) ==
    /\ response' = [kind |-> "raised"]
    /\ call' = [op |-> "play_action", arg |-> action,
                engine |-> << <<"step", action>> >>]
    /\ before' = Before
    /\ UNCHANGED <<env, game_name, dictionary, state, history, explored_locations,
                   current_location, saved_states, log>>


\* get_memory
MemoryText ==
    LET recent == LastN(history, RecentMax)
    IN  [location |-> current_location, score |-> state.score, moves |-> state.moves,
         game |-> game_name,
         recent |-> IF recent # <<>>
                    THEN [i \in 1..Len(recent) |->
                             <<"  > ", recent[i][1], " -> ",
                               Take(recent[i][2], ExcerptMax), "...">>]
                    ELSE <<"  (none yet)">>,
         observation |-> state.observation]

GetMemory ==
    /\ response' = [kind |-> "memory", text |-> MemoryText]
    /\ call' = [op |-> "memory", arg |-> <<>>, engine |-> <<>>]
    /\ before' = Before
    /\ UNCHANGED <<session, dictionary, log>>

\* the characters in code point order: sorted() compares strings by code point
CodeOrder == <<"\t","\n",VT,"\f","\r",FS,GS,RS,US," ","#","'","(",")","+",",","-",".","0","1","2","3","4","5","6","7","8","9",":",">","?","A","B","C","D","E","F","G","H","I","J","K","L","M","N","O","P","Q","R","S","T","U","V","W","X","Y","Z","[","]","a","b","c","d","e","f","g","h","i","j","k","l","m","n","o","p","q","r","s","t","u","v","w","x","y","z","|">>

Code(c) == CHOOSE i \in 1..Len(CodeOrder) : CodeOrder[i] = c

\* a <= b for str
StrLeq(a, b) ==
    LET n == IF Len(a) < Len(b) THEN Len(a) ELSE Len(b)
        diff == {i \in 1..n : a[i] # b[i]}
    IN  IF diff = {} THEN Len(a) <= Len(b)
        ELSE LET i == CHOOSE k \in diff : \A j \in diff : k <= j
             IN  Code(a[i]) < Code(b[i])

\* sorted(S) for a set of str
RECURSIVE Sorted(_)
Sorted(S) ==
    IF S = {} THEN <<>>
    ELSE LET m == CHOOSE x \in S : \A y \in S : StrLeq(x, y)
         IN  <<m>> \o Sorted(S \ {m})

\* get_map: a header, then per location (sorted) its name and its exits (sorted),
\* then the current location
MapText ==
    IF DOMAIN explored_locations = {}
    THEN [explored |-> FALSE, text |-> "Map: No locations explored yet. Try moving around!"]
    ELSE LET locs == Sorted(DOMAIN explored_locations)
         IN  [explored |-> TRUE,
              header |-> "Explored Locations and Exits:",
              locations |-> [i \in 1..Len(locs) |->
                               [name |-> locs[i],
                                exits |-> Sorted(explored_locations[locs[i]])]],
              current |-> current_location]

\* get_map that files the current location in the graph before listing it
GetMapMarksCurrent ==
    /\ explored_locations' =
           IF current_location \in DOMAIN explored_locations
           THEN explored_locations
           ELSE explored_locations @@ (current_location :> {})
    /\ response' = [kind |-> "map", text |-> MapText]
    /\ call' = [op |-> "get_map", arg |-> <<>>, engine |-> <<>>]
    /\ before' = Before
    /\ UNCHANGED <<env, game_name, dictionary, state, history, current_location,
                   saved_states, log>>

GetMap ==
    /\ response' = [kind |-> "map", text |-> MapText]
    /\ call' = [op |-> "get_map", arg |-> <<>>, engine |-> <<>>]
    /\ before' = Before
    /\ UNCHANGED <<session, dictionary, log>>

Parent == <<"p","a","r","e","n","t">>

Colon == ":"

\* the body of the loop in get_inventory: one item's display name
ItemNameFirstPiece(item_str) ==
    LET item_lower == Lower(item_str)
    IN  IF Contains(item_lower, Parent)
        THEN LET idx == IndexOf(item_lower, Parent)
                 name == Strip(Take(item_str, idx))
             IN  IF Contains(name, <<Colon>>)
                 THEN Strip(Split1(name, Colon)[1])
                 ELSE name
        ELSE IF Contains(item_str, <<Colon>>)
        THEN Strip(Split(item_str, Colon)[2])
        ELSE item_str

ItemName(item_str) ==
    LET item_lower == Lower(item_str)
    IN  IF Contains(item_lower, Parent)
        THEN LET idx == IndexOf(item_lower, Parent)
                 name == Strip(Take(item_str, idx))
             IN  IF Contains(name, <<Colon>>)
                 THEN Strip(Split1(name, Colon)[2])
                 ELSE name
        ELSE IF Contains(item_str, <<Colon>>)
        THEN Strip(Split(item_str, Colon)[2])
        ELSE item_str

EmptyHanded == <<"I","n","v","e","n","t","o","r","y",":"," ","Y","o","u"," ","a","r","e"," ","e","m","p","t","y","-","h","a","n","d","e","d",".">>

InventoryPrefix == <<"I","n","v","e","n","t","o","r","y",":"," ">>

CommaSpace == <<","," ">>

\* get_inventory
InventoryText(items) ==
    IF items = <<>> THEN EmptyHanded
    ELSE InventoryPrefix \o Join(CommaSpace, [i \in 1..Len(items) |-> ItemName(items[i])])

GetInventory ==
    /\ response' = [kind |-> "inventory", text |-> InventoryText(state.inventory)]
    /\ call' = [op |-> "inventory", arg |-> <<>>, engine |-> <<>>]
    /\ before' = Before
    /\ UNCHANGED <<session, dictionary, log>>

\* get_valid_actions, the engine's query returning
ValidActionsText(actions) ==
    IF actions = <<>> THEN [kind |-> "valid_actions", text |-> "No valid actions available."]
    ELSE [kind |-> "valid_actions", text |-> "Valid Actions:\n",
          lines |-> [i \in 1..Len(actions) |-> <<"  - ", actions[i]>>]]

GetValidActions ==
    /\ response' = ValidActionsText(EngineValidActions(env))
    /\ call' = [op |-> "valid_actions", arg |-> <<>>,
                engine |-> << <<"get_valid_actions">> >>]
    /\ before' = Before
    /\ UNCHANGED <<session, dictionary, log>>

\* get_valid_actions, the engine's query raising: the except branch
GetValidActionsRaises ==
    /\ response' = [kind |-> "error", text |-> "Could not retrieve valid actions: "]
    /\ call' = [op |-> "valid_actions", arg |-> <<>>,
                engine |-> << <<"get_valid_actions">> >>]
    /\ before' = Before
    /\ UNCHANGED <<session, dictionary, log>>

\* the list comprehension of check_vocabulary
VocabularyMatchesNoLower(vocab, word) ==
    SelectSeq(vocab, LAMBDA w : StartsWith(w, Take(word, PrefixMax)))

VocabularyMatchesWordPrefix(vocab, word) ==
    SelectSeq(vocab, LAMBDA w : StartsWith(Lower(word), w))

VocabularyMatches(vocab, word) ==
    SelectSeq(vocab, LAMBDA w : StartsWith(w, Take(Lower(word), PrefixMax)))

\* check_vocabulary's two reports
VocabularyText(vocab, word) ==
    LET matches == VocabularyMatches(vocab, word)
    IN  IF matches # <<>>
        THEN [kind |-> "vocabulary", understood |-> TRUE, word |-> word,
              matches |-> Join(CommaSpace, matches)]
        ELSE [kind |-> "vocabulary", understood |-> FALSE, word |-> word]

CheckVocabulary(word) ==
    /\ response' = VocabularyText(dictionary, word)
    /\ call' = [op |-> "check_vocabulary", arg |-> word,
                engine |-> << <<"get_dictionary">> >>]
    /\ before' = Before
    /\ UNCHANGED <<session, dictionary, log>>

\* check_vocabulary, the engine's query raising: the except branch
CheckVocabularyRaises(word) ==
    /\ response' = [kind |-> "error", text |-> "Could not check vocabulary: "]
    /\ call' = [op |-> "check_vocabulary", arg |-> word,
                engine |-> << <<"get_dictionary">> >>]
    /\ before' = Before
    /\ UNCHANGED <<session, dictionary, log>>

\* save_game that keeps the snapshot a name already has
SaveGameKeepsFirst(slot_name) ==
    /\ saved_states' = IF slot_name \in DOMAIN saved_states
                       THEN saved_states
                       ELSE saved_states @@ (slot_name :> env)
    /\ response' = [kind |-> "saved", slot |-> slot_name]
    /\ call' = [op |-> "save_state", arg |-> slot_name,
                engine |-> << <<"get_state">> >>]
    /\ before' = Before
    /\ UNCHANGED <<env, game_name, dictionary, state, history, explored_locations,
                   current_location, log>>

\* save_game, env.get_state() returning
SaveGame(slot_name) ==
    /\ saved_states' = IF slot_name \in DOMAIN saved_states
                       THEN [saved_states EXCEPT ![slot_name] = env]
                       ELSE saved_states @@ (slot_name :> env)
    /\ response' = [kind |-> "saved", slot |-> slot_name]
    /\ call' = [op |-> "save_state", arg |-> slot_name,
                engine |-> << <<"get_state">> >>]
    /\ before' = Before
    /\ UNCHANGED <<env, game_name, dictionary, state, history, explored_locations,
                   current_location, log>>

\* save_game, env.get_state() raising, with the name's snapshot dropped
SaveGameRaisesDropsSlot(slot_name) ==
    /\ saved_states' = [n \in DOMAIN saved_states \ {slot_name} |-> saved_states[n]]
    /\ response' = [kind |-> "error", text |-> "Error saving game to slot ",
                    slot |-> slot_name]
    /\ call' = [op |-> "save_state", arg |-> slot_name,
                engine |-> << <<"get_state">> >>]
    /\ before' = Before
    /\ UNCHANGED <<env, game_name, dictionary, state, history, explored_locations,
                   current_location, log>>

\* save_game, env.get_state() raising: the except branch
SaveGameRaises(slot_name) ==
    /\ response' = [kind |-> "error", text |-> "Error saving game to slot ",
                    slot |-> slot_name]
    /\ call' = [op |-> "save_state", arg |-> slot_name,
                engine |-> << <<"get_state">> >>]
    /\ before' = Before
    /\ UNCHANGED <<session, dictionary, log>>

\* load_game with a slot that is not in saved_states, refreshing all the same
LoadNotFoundRefresh(slot_name) ==
    /\ env' = EngineNext(env, Look)
    /\ state' = EngineStep(env, Look)
    /\ current_location' = ExtractLocation(EngineStep(env, Look).observation)
    /\ response' = [kind |-> "not_found", slot |-> slot_name]
    /\ call' = [op |-> "load_state", arg |-> slot_name,
                engine |-> << <<"step", Look>> >>]
    /\ before' = Before
    /\ UNCHANGED <<game_name, dictionary, history, explored_locations, saved_states, log>>

\* load_game with a slot that is not in saved_states
LoadNotFound(slot_name) ==
    /\ response' = [kind |-> "not_found", slot |-> slot_name]
    /\ call' = [op |-> "load_state", arg |-> slot_name, engine |-> <<>>]
    /\ before' = Before
    /\ UNCHANGED <<session, dictionary, log>>

\* load_game that refreshes the transition and keeps the old location
LoadFoundStaleLocation(slot_name) ==
    LET snapshot == saved_states[slot_name]
        st == EngineStep(snapshot, Look)
    IN  /\ env' = EngineNext(snapshot, Look)
        /\ state' = st
        /\ response' = [kind |-> "loaded", slot |-> slot_name,
                        observation |-> st.observation]
        /\ call' = [op |-> "load_state", arg |-> slot_name,
                    engine |-> << <<"set_state">>, <<"step", Look>> >>]
        /\ before' = Before
        /\ UNCHANGED <<game_name, dictionary, history, explored_locations, current_location,
                       saved_states, log>>

\* load_game that runs its look through take_action's bookkeeping
LoadFoundRecordsLook(slot_name) ==
    LET snapshot == saved_states[slot_name]
        st == EngineStep(snapshot, Look)
    IN  /\ env' = EngineNext(snapshot, Look)
        /\ state' = st
        /\ history' = TrimHistory(Append(history, <<Look, st.observation>>))
        /\ current_location' = ExtractLocation(st.observation)
        /\ response' = [kind |-> "loaded", slot |-> slot_name,
                        observation |-> st.observation]
        /\ call' = [op |-> "load_state", arg |-> slot_name,
                    engine |-> << <<"set_state">>, <<"step", Look>> >>]
        /\ before' = Before
        /\ UNCHANGED <<game_name, dictionary, explored_locations, saved_states, log>>

\* load_game: set_state, the synchronizing look, the refreshed location
LoadFound(slot_name) ==
    LET snapshot == saved_states[slot_name]
        st == EngineStep(snapshot, Look)
    IN  /\ env' = EngineNext(snapshot, Look)
        /\ state' = st
        /\ current_location' = ExtractLocation(st.observation)
        /\ response' = [kind |-> "loaded", slot |-> slot_name,
                        observation |-> st.observation]
        /\ call' = [op |-> "load_state", arg |-> slot_name,
                    engine |-> << <<"set_state">>, <<"step", Look>> >>]
        /\ before' = Before
        /\ UNCHANGED <<game_name, dictionary, history, explored_locations, saved_states, log>>

\* load_game, env.set_state raising: the except branch, the engine untouched
LoadSetStateRaises(slot_name) ==
    /\ response' = [kind |-> "error", text |-> "Error loading game from slot ",
                    slot |-> slot_name]
    /\ call' = [op |-> "load_state", arg |-> slot_name,
                engine |-> << <<"set_state">> >>]
    /\ before' = Before
    /\ UNCHANGED <<session, dictionary, log>>

\* load_game, the look step raising after set_state took effect: the except branch
LoadStepRaises(slot_name) ==
    /\ env' = saved_states[slot_name]
    /\ response' = [kind |-> "error", text |-> "Error loading game from slot ",
                    slot |-> slot_name]
    /\ call' = [op |-> "load_state", arg |-> slot_name,
                engine |-> << <<"set_state">>, <<"step", Look>> >>]
    /\ before' = Before
    /\ UNCHANGED <<game_name, dictionary, state, history, explored_locations, current_location,
                   saved_states, log>>

\* load_game
LoadGame(slot_name) ==
    IF slot_name \notin DOMAIN saved_states
    THEN LoadNotFound(slot_name)
    ELSE \/ LoadFound(slot_name)
         \/ LoadSetStateRaises(slot_name)
         \/ LoadStepRaises(slot_name)

(***************************************************************************)
(* The callers: what the tools are called with.                            *)
(***************************************************************************)
Actions == {Look, North, TakeLamp, Xyzzy, Jump}

\* the calls on which the engine is made to raise
RaisingActions == {North}

Slots == {"a"}

Words == {<<"x","y","z","z","y","q","q">>}

Next ==
    \/ \E action \in Actions :
          /\ Len(log) < MaxActions
          /\ env.moves < MaxMoves
          /\ TakeActionOk(action)
    \/ \E action \in RaisingActions : TakeActionRaises(action)
    \/ GetMemory
    \/ GetMap
    \/ GetInventory
    \/ GetValidActions
    \/ GetValidActionsRaises
    \/ \E word \in Words : CheckVocabulary(word)
    \/ \E word \in Words : CheckVocabularyRaises(word)
    \/ \E slot_name \in Slots : SaveGame(slot_name)
    \/ \E slot_name \in Slots : SaveGameRaises(slot_name)
    \/ \E slot_name \in Slots : env.moves < MaxMoves /\ LoadGame(slot_name)

Spec == Init /\ [][Next]_vars


(***************************************************************************)
(* A long session: enough take_action calls to fill the history and        *)
(* overflow it.  The first LongFree actions are chosen freely, the rest    *)
(* follow a fixed rotation; saves, loads, a query and a raising step are   *)
(* interleaved once the history is about to fill.                          *)
(***************************************************************************)
Rotation == <<Look, North, Xyzzy>>

LongChoices(n) ==
    IF n < LongFree THEN {North, TakeLamp, Jump} ELSE {Rotation[(n % 3) + 1]}

NearFull == Len(log) >= HistoryMax - 1

NextLong ==
    \/ \E action \in LongChoices(Len(log)) :
          /\ Len(log) < LongActions
          /\ env.moves < LongMoves
          /\ TakeActionOk(action)
    \/ \E action \in RaisingActions : NearFull /\ TakeActionRaises(action)
    \/ NearFull /\ GetMemory
    \/ \E slot_name \in Slots : NearFull /\ SaveGame(slot_name)
    \/ \E slot_name \in Slots : NearFull /\ env.moves < LongMoves /\ LoadGame(slot_name)

SpecLong == Init /\ [][NextLong]_vars

(***************************************************************************)
(* check_vocabulary over many dictionaries and words.                      *)
(***************************************************************************)
Tokens == {<<"x","y","z","z","y">>, <<"x","y","z","z","y","q">>, <<"x","y","z","z","y","q","z">>, <<"l","a","m","p">>, <<"x">>}

ProbeWords == {<<"x","y","z","z","y","q","q">>,
               <<"x","y","z","z","y">>,
               <<"X","Y","Z","Z","Y">>,
               <<"X","y","z","z","y","Q","z","z">>,
               <<"l","a","m">>,
               <<"L","a","m","p">>,
               <<"x">>, <<>>}

RECURSIVE SeqsUpTo(_, _)
SeqsUpTo(S, n) ==
    IF n = 0 THEN {<<>>}
    ELSE LET shorter == SeqsUpTo(S, n - 1)
         IN  shorter \cup {Append(q, x) : q \in shorter, x \in S}

InitVocabulary ==
    /\ game_name = INITIAL_GAME(Unset)
    /\ env = EnvInit
    /\ dictionary \in SeqsUpTo(Tokens, MaxTokens)
    /\ state = EngineReset
    /\ history = <<>>
    /\ explored_locations = <<>>
    /\ current_location = ExtractLocation(EngineReset.observation)
    /\ saved_states = <<>>
    /\ response = [kind |-> "none"]
    /\ call = [op |-> "init", arg |-> <<>>, engine |-> <<>>]
    /\ log = <<>>
    /\ before = [location |-> ExtractLocation(EngineReset.observation), graph |-> <<>>]

NextVocabulary ==
    \/ \E word \in ProbeWords : CheckVocabulary(word)
    \/ \E word \in ProbeWords : CheckVocabularyRaises(word)

SpecVocabulary == InitVocabulary /\ [][NextVocabulary]_vars

(***************************************************************************)
(* get_inventory over many item descriptors.                               *)
(***************************************************************************)
Pieces == {<<"a">>, <<"b">>, <<Colon>>, <<" ">>, Parent, <<"P","a","R","e","n","t">>}

RECURSIVE Concats(_)
Concats(n) ==
    IF n = 0 THEN {<<>>}
    ELSE LET shorter == Concats(n - 1)
         IN  shorter \cup {d \o x : d \in shorter, x \in Pieces}

SpecDescriptor == <<"l","a","m","p",":","O","b","j","e","c","t","#","1","2","3"," ","p","a","r","e","n","t",":","r","o","o","m">>

ColonsDescriptor == <<"a",":","b",":","c">>

NamedDescriptors == {LampDescriptor, SpecDescriptor, ColonsDescriptor}

ItemLists ==
    {<<>>} \cup {<<d>> : d \in Concats(MaxPieces) \cup NamedDescriptors}
           \cup {<<d, e>> : d \in NamedDescriptors, e \in NamedDescriptors}

InitInventory ==
    /\ game_name = INITIAL_GAME(Unset)
    /\ env = EnvInit
    /\ dictionary = GameDictionary
    /\ \E items \in ItemLists : state = [EngineReset EXCEPT !.inventory = items]
    /\ history = <<>>
    /\ explored_locations = <<>>
    /\ current_location = ExtractLocation(EngineReset.observation)
    /\ saved_states = <<>>
    /\ response = [kind |-> "none"]
    /\ call = [op |-> "init", arg |-> <<>>, engine |-> <<>>]
    /\ log = <<>>
    /\ before = [location |-> ExtractLocation(EngineReset.observation), graph |-> <<>>]

NextInventory == GetInventory

SpecInventory == InitInventory /\ [][NextInventory]_vars

(***************************************************************************)
(* Two slot names: saves and loads under either name between a few moves.  *)
(***************************************************************************)
SlotNames == {"a", "b"}

SlotActions == {North, TakeLamp}

NextSlots ==
    \/ \E action \in SlotActions :
          /\ Len(log) < MaxActions
          /\ env.moves < MaxMoves
          /\ TakeActionOk(action)
    \/ \E slot_name \in SlotNames : SaveGame(slot_name)
    \/ \E slot_name \in SlotNames : SaveGameRaises(slot_name)
    \/ \E slot_name \in SlotNames : env.moves < MaxMoves /\ LoadGame(slot_name)

SpecSlots == Init /\ [][NextSlots]_vars

(***************************************************************************)
(* Sessions created with GAME unset or set, on various opening             *)
(* observations: blank lines and whitespace before and after the first     *)
(* line of text.                                                           *)
(***************************************************************************)
ResetObservations ==
    {HallObs,
     DenObs,
     <<" ","H","a","l","l","\n","B","i","g",".">>,
     <<" ","\n","H","a","l","l"," ","\n","B","i","g",".">>,
     <<"H","a","l","l"," ">>,
     <<"\t","H","a","l","l","\r","\n","B","i","g",".","\n">>,
     <<"\f","H","a","l","l","\n","B","i","g",".">>,
     <<GS,"\n","H","a","l","l",VT>>,
     <<" ","\n">>,
     <<>>}

InitObservations ==
    /\ \E environ \in Environs : game_name = INITIAL_GAME(environ)
    /\ env = EnvInit
    /\ dictionary = GameDictionary
    /\ \E obs \in ResetObservations :
          /\ state = [EngineReset EXCEPT !.observation = obs]
          /\ current_location = ExtractLocation(obs)
          /\ before = [location |-> ExtractLocation(obs), graph |-> <<>>]
    /\ history = <<>>
    /\ explored_locations = <<>>
    /\ saved_states = <<>>
    /\ response = [kind |-> "none"]
    /\ call = [op |-> "init", arg |-> <<>>, engine |-> <<>>]
    /\ log = <<>>

NextObservations ==
    \/ \E action \in {North, Jump} :
          /\ Len(log) < MaxActions
          /\ env.moves < MaxMoves
          /\ TakeActionOk(action)
    \/ \E action \in RaisingActions : TakeActionRaises(action)
    \/ GetMemory
    \/ GetValidActionsRaises
    \/ \E slot_name \in Slots : SaveGame(slot_name)
    \/ \E slot_name \in Slots : SaveGameRaises(slot_name)
    \/ \E slot_name \in Slots : env.moves < MaxMoves /\ LoadGame(slot_name)

SpecObservations == InitObservations /\ [][NextObservations]_vars


(***************************************************************************)
(* Properties                                                              *)
(***************************************************************************)
Min(a, b) == IF a < b THEN a ELSE b

PlayActionReturned == call.op = "play_action" /\ response.kind = "play_action"

\* C1: after n successful take_action calls, interleaved with saves, loads and
\* queries, the history holds exactly min(n, 50) entries, and they are the
\* most recent min(n, 50) recorded (action, result) pairs in the order issued.
C1_HistoryIsLastFifty ==
    /\ Len(history) = Min(Len(log), 50)
    /\ \A i \in 1..Len(history) : history[i] = log[Len(log) - Len(history) + i]

\* more than 50 actions were taken, so the oldest entries were discarded, and
\* a load came last
C1_Witness ==
    /\ Len(log) = 52
    /\ Len(history) = 50
    /\ history[1] # log[1]
    /\ response.kind = "loaded"

\* C2: save(slot) followed immediately by load(slot) leaves the current
\* location and the score as they were before the save (a save changes
\* neither, so "before the save" is the state the load starts from).
C2_RoundTripKeepsLocationAndScore ==
    [][(/\ call.op = "save_state" /\ response.kind = "saved"
        /\ call'.op = "load_state" /\ response'.kind = "loaded"
        /\ call'.arg = call.arg)
       => (current_location' = current_location /\ state'.score = state.score)]_vars

\* the edges of a graph, each with the location it is stored under
EdgeSet(g) == UNION {{<<k, e>> : e \in g[k]} : k \in DOMAIN g}

\* C3: a take_action with a movement action whose resulting location differs
\* from the prior location makes the graph's edges the prior edges plus the
\* edge "<action> -> <new location>" under the prior location: one new edge if
\* it was absent, the graph unchanged if it was present.
C3_MovementAddsOneEdge ==
    [][(/\ call'.op = "play_action" /\ response'.kind = "play_action"
        /\ call'.arg \in MovementActions
        /\ current_location' # current_location)
       => LET edge == <<current_location,
                        call'.arg \o <<" ", "-", ">", " ">> \o current_location'>>
          IN  /\ EdgeSet(explored_locations') = EdgeSet(explored_locations) \cup {edge}
              /\ edge \in EdgeSet(explored_locations)
                     => explored_locations' = explored_locations
              /\ edge \notin EdgeSet(explored_locations)
                     => Cardinality(EdgeSet(explored_locations')) =
                            Cardinality(EdgeSet(explored_locations)) + 1]_vars

\* a movement action has just led to another location over an edge the graph
\* already held
C3_Witness ==
    /\ PlayActionReturned
    /\ call.arg \in MovementActions
    /\ before.location # current_location
    /\ before.location \in DOMAIN before.graph
    /\ Edge(call.arg, current_location) \in before.graph[before.location]
    /\ explored_locations = before.graph

\* C4: a take_action with an action outside the movement vocabulary leaves
\* the graph as it was, and sets the current location to the location derived
\* from the new observation.
C4_NonMovementLeavesGraph ==
    [][(/\ call'.op = "play_action" /\ response'.kind = "play_action"
        /\ call'.arg \notin MovementActions)
       => /\ explored_locations' = explored_locations
          /\ current_location' = ExtractLocation(state'.observation)
          /\ state' = EngineStep(env, call'.arg)]_vars

\* a non-movement action has just changed the location
C4_Witness ==
    /\ PlayActionReturned
    /\ call.arg \notin MovementActions
    /\ before.location # current_location
    /\ explored_locations = before.graph

\* C5: a load of a slot that is not in the store reports NotFound, calls the
\* engine not at all, and leaves the session as it was.
C5_LoadMissingChangesNothing ==
    [][(call'.op = "load_state" /\ call'.arg \notin DOMAIN saved_states)
       => /\ response'.kind = "not_found"
          /\ call'.engine = <<>>
          /\ UNCHANGED session]_vars

\* a load of a missing slot was reported, in a session that has state to lose
C5_Witness ==
    /\ response.kind = "not_found"
    /\ call.op = "load_state"
    /\ call.arg \notin DOMAIN saved_states
    /\ Len(history) > 0

\* C6: take_action never looks at the terminal flag: whatever the cached
\* transition says, the action goes to the engine's step as given, the
\* engine's answer becomes the cached transition, and the response carries the
\* terminal marker exactly when that answer has done = TRUE.
C6_TerminalStepsForwarded ==
    [][(call'.op = "play_action" /\ response'.kind = "play_action")
       => /\ call'.engine = << <<"step", call'.arg>> >>
          /\ state' = EngineStep(env, call'.arg)
          /\ env' = EngineNext(env, call'.arg)
          /\ response'.text.result = state'.observation
          /\ (response'.text.done_info = "\n\nGAME OVER") = state'.done
          /\ response'.text.done_info \in {"", "\n\nGAME OVER"}]_vars

\* a take_action has returned, with the marker, after an earlier one had
\* already ended the game
C6_Witness ==
    /\ PlayActionReturned
    /\ Len(log) >= 2
    /\ log[Len(log) - 1][2] = DeadObs
    /\ state.done
    /\ response.text.done_info = "\n\nGAME OVER"

Xyzzyqq == <<"x","y","z","z","y","q","q">>

VocabularyReturned == call.op = "check_vocabulary" /\ response.kind = "vocabulary"

InDictionary(token) == \E i \in 1..Len(dictionary) : dictionary[i] = token

\* token shares the first 6 characters of word
SharesPrefix(token, word) ==
    /\ Len(token) >= Min(Len(word), 6)
    /\ \A i \in 1..Min(Len(word), 6) : token[i] = LowerChar(word[i])

\* C7 as stated: check_vocabulary("xyzzyqq") is negative when no token shares
\* its first 6 characters, and positive, listing "xyzzy", when the dictionary
\* contains "xyzzy".
C7_AsStated ==
    (VocabularyReturned /\ call.arg = Xyzzyqq)
    => /\ (\A i \in 1..Len(dictionary) : ~SharesPrefix(dictionary[i], Xyzzyqq))
              => ~response.understood
       /\ InDictionary(Xyzzy)
              => response.understood /\ Contains(response.matches, Xyzzy)

\* C7 amended: check_vocabulary("xyzzyqq") is negative when no token starts
\* with "xyzzyq", also when the dictionary contains "xyzzy"; it is positive,
\* listing "xyzzyq", when the dictionary contains the token "xyzzyq".
C7_PrefixOfTokenNotOfWord ==
    (VocabularyReturned /\ call.arg = Xyzzyqq)
    => /\ (\A i \in 1..Len(dictionary) : ~SharesPrefix(dictionary[i], Xyzzyqq))
              => ~response.understood
       /\ InDictionary(Take(Xyzzyqq, 6))
              => response.understood /\ Contains(response.matches, Take(Xyzzyqq, 6))

\* "xyzzyqq" was looked up in a dictionary that has "xyzzy" and nothing that
\* starts with "xyzzyq", and the report was negative
C7_Witness ==
    /\ VocabularyReturned
    /\ call.arg = Xyzzyqq
    /\ InDictionary(Xyzzy)
    /\ ~InDictionary(Take(Xyzzyqq, 6))
    /\ ~response.understood

\* the dictionary tokens sharing the word's first 6 characters, in dictionary
\* order
RECURSIVE ExpectedMatches(_, _)
ExpectedMatches(vocab, word) ==
    IF vocab = <<>> THEN <<>>
    ELSE (IF SharesPrefix(Head(vocab), word) THEN <<Head(vocab)>> ELSE <<>>)
         \o ExpectedMatches(Tail(vocab), word)

\* C8: for every word and dictionary, the report is positive iff some token
\* starts with the first 6 characters of the lower-cased word, and then lists
\* exactly those tokens in dictionary order.
C8_MatchesArePrefixFiltered ==
    VocabularyReturned
    => LET expected == ExpectedMatches(dictionary, call.arg)
       IN  /\ response.understood = (expected # <<>>)
           /\ response.word = call.arg
           /\ response.understood => response.matches = Join(CommaSpace, expected)

\* a word with capitals and more than 6 characters matched some tokens of the
\* dictionary and not others
C8_Witness ==
    /\ VocabularyReturned
    /\ response.understood
    /\ Len(call.arg) > 6
    /\ Lower(call.arg) # call.arg
    /\ Len(ExpectedMatches(dictionary, call.arg)) \in 1..(Len(dictionary) - 1)

InventoryReturned == call.op = "inventory" /\ response.kind = "inventory"

\* s from after its first colon on
AfterFirstColon(s) == Drop(s, IndexOf(s, <<Colon>>) + 1)

\* the display name by the three rules
ExpectedName(descriptor) ==
    IF Contains(Lower(descriptor), Parent)
    THEN LET prefix == Strip(Take(descriptor, IndexOf(Lower(descriptor), Parent)))
         IN  IF Contains(prefix, <<Colon>>) THEN Strip(AfterFirstColon(prefix))
             ELSE prefix
    ELSE IF Contains(descriptor, <<Colon>>) THEN Strip(AfterFirstColon(descriptor))
    ELSE descriptor

\* C9: for every item descriptor the display name get_inventory produces is
\* the three-rule result, rule 2 being all the trimmed text after the first
\* colon.
C9_DisplayNameByThreeRules ==
    (InventoryReturned /\ Len(state.inventory) = 1)
    => response.text = InventoryPrefix \o ExpectedName(state.inventory[1])

\* C10 as stated: "lamp:Object#123 parent:room" displays as "lamp", and an
\* empty item list gives the empty-handed message.
C10_AsStated ==
    InventoryReturned
    => /\ state.inventory = <<SpecDescriptor>>
              => response.text = InventoryPrefix \o <<"l","a","m","p">>
       /\ state.inventory = <<>> => response.text = EmptyHanded

\* C10 amended: "lamp:Object#123 parent:room" displays as "Object#123" (the
\* text before "parent", then after its colon), and an empty item list gives
\* the empty-handed message.
C10_SpecDescriptorIsObject ==
    InventoryReturned
    => /\ state.inventory = <<SpecDescriptor>>
              => response.text = InventoryPrefix \o <<"O","b","j","e","c","t","#","1","2","3">>
       /\ state.inventory = <<>> => response.text = EmptyHanded

\* get_inventory has answered for the descriptor of the specification
C10_Witness ==
    /\ InventoryReturned
    /\ state.inventory = <<SpecDescriptor>>
    /\ response.text # EmptyHanded

SaveReturned == call.op = "save_state" /\ response.kind = "saved"

\* C11: the store holds one snapshot per name.  A successful save(n) puts the
\* engine's state under n, replacing what n held, and leaves every other name's
\* snapshot as it was; no other operation touches the store; so a successful
\* load(n) hands the engine the snapshot of the most recent successful save(n)
\* and then steps it with the synchronizing look.
C11_OneSnapshotPerName ==
    [][/\ SaveReturned' =>
              /\ DOMAIN saved_states' = DOMAIN saved_states \cup {call'.arg}
              /\ saved_states'[call'.arg] = env
              /\ \A n \in DOMAIN saved_states \ {call'.arg} :
                     saved_states'[n] = saved_states[n]
       /\ ~SaveReturned' => UNCHANGED saved_states
       /\ response'.kind = "loaded" =>
              /\ env' = EngineNext(saved_states[call'.arg], Look)
              /\ state' = EngineStep(saved_states[call'.arg], Look)]_vars

\* slot a loaded while slot b holds another snapshot and the engine had moved on
C11_Witness ==
    /\ response.kind = "loaded"
    /\ call.arg = "a"
    /\ DOMAIN saved_states = {"a", "b"}
    /\ saved_states["a"] # saved_states["b"]
    /\ saved_states["a"].moves > 0
    /\ env.moves = saved_states["a"].moves + 1
    /\ Len(log) > saved_states["a"].moves

\* C12: a successful load leaves the history, the exploration graph and the
\* slots exactly as they were; the look it steps the engine with is not
\* recorded as an action and adds no edge.
C12_LoadKeepsHistoryAndGraph ==
    [][response'.kind = "loaded" =>
           /\ call'.engine = << <<"set_state">>, <<"step", Look>> >>
           /\ UNCHANGED <<history, explored_locations, saved_states, log>>]_vars

\* a load that moved the session to another location, with actions recorded
\* and an edge in the graph
C12_Witness ==
    /\ response.kind = "loaded"
    /\ history # <<>>
    /\ EdgeSet(explored_locations) # {}
    /\ current_location # before.location
    /\ env # saved_states[call.arg]

\* C13: when the engine call of get_valid_actions, check_vocabulary or save_game
\* raises, the caller gets an error text, never the exception, and the cached
\* transition, the location, the history, the graph and the slots are as
\* before; a failed save leaves its slot holding what it held, or absent.
C13_EngineFailureAbsorbed ==
    [][call'.op \in {"valid_actions", "check_vocabulary", "save_state"} =>
           /\ response'.kind # "raised"
           /\ response'.kind = "error" =>
                  /\ "text" \in DOMAIN response'
                  /\ Len(call'.engine) = 1
                  /\ UNCHANGED <<state, current_location, history,
                                 explored_locations, saved_states>>]_vars

\* a save whose get_state raised while the slot already held a snapshot
C13_Witness ==
    /\ call.op = "save_state"
    /\ response.kind = "error"
    /\ call.arg \in DOMAIN saved_states
    /\ saved_states[call.arg] # env
    /\ history # <<>>

\* the last call was a load whose look step raised after set_state returned
LoadLookFailed ==
    /\ call.op = "load_state"
    /\ call.engine = << <<"set_state">>, <<"step", Look>> >>
    /\ response.kind # "loaded"

\* C14: a raising engine step in take_action and a raising look step in
\* load_game both reach the caller as the exception, not as a text, and no
\* other operation lets an engine failure reach the caller.
C14_TransitionFailuresPropagate ==
    /\ (call.op = "play_action" /\ response.kind # "play_action")
           => response.kind = "raised"
    /\ LoadLookFailed => response.kind = "raised"
    /\ response.kind = "raised" => call.op \in {"play_action", "load_state"}

Arrow == <<" ","-",">"," ">>

\* the edge reads "<action> -> <destination>" for a movement word and a
\* destination other than key
EdgeFrom(key, edge) ==
    \E action \in MovementActions :
        /\ StartsWith(edge, action \o Arrow)
        /\ Drop(edge, Len(action) + Len(Arrow)) # key

EdgesWellFormed(g) == \A k \in DOMAIN g : \A edge \in g[k] : EdgeFrom(k, edge)

\* C15: every edge of the graph reads "<action> -> <destination>" with a
\* movement word and a destination other than the location it is stored
\* under, in the initial state (no edges) and after every step; and every
\* step keeps all the edges that were there.
C15_EdgesWellFormedAndKept ==
    [][/\ EdgesWellFormed(explored_locations)
       /\ EdgesWellFormed(explored_locations')
       /\ EdgeSet(explored_locations) \subseteq EdgeSet(explored_locations')]_vars

\* two edges under two locations, still there after a load
C15_Witness ==
    /\ Cardinality(EdgeSet(explored_locations)) = 2
    /\ Cardinality({k \in DOMAIN explored_locations : explored_locations[k] # {}}) = 2
    /\ response.kind = "loaded"

Queries == {"memory", "get_map", "inventory", "valid_actions", "check_vocabulary"}

\* C16: memory, get_map, inventory, valid_actions and check_vocabulary leave
\* the engine, the cached transition, the location, the history, the graph
\* and the slots as they were, whether their engine call returns or raises;
\* every later operation therefore starts from the state it would have had.
C16_QueriesReadOnly ==
    [][call'.op \in Queries => UNCHANGED <<session, dictionary>>]_vars

\* a map query answered in a session with history, a slot and a location
\* that is not in the graph
C16_Witness ==
    /\ call.op = "get_map"
    /\ response.kind = "map"
    /\ history # <<>>
    /\ DOMAIN saved_states # {}
    /\ current_location \notin DOMAIN explored_locations

\* this step is a take_action with a movement word that returned and left the
\* derived location where it was
BlockedMove ==
    /\ call'.op = "play_action"
    /\ response'.kind = "play_action"
    /\ call'.arg \in MovementActions
    /\ current_location' = current_location

\* C17 as stated: a blocked move leaves the mapping as it was, keys included,
\* so get_map after it still reports nothing explored if nothing was, and
\* get_map never lists a location without an exit.
C17_AsStated ==
    [][/\ BlockedMove =>
              /\ UNCHANGED explored_locations
              /\ (DOMAIN explored_locations = {} => ~MapText'.explored)
       /\ (response'.kind = "map" /\ response'.text.explored) =>
              \A i \in 1..Len(response'.text.locations) :
                  response'.text.locations[i].exits # <<>>]_vars

\* C17: a blocked move adds no edge and removes none, and it makes the prior
\* location a key of the mapping, with no edges if it was not a key before;
\* get_map after it lists that location, without exits if it has none,
\* instead of reporting that nothing is explored.
C17_BlockedMoveAddsKeyOnly ==
    [][BlockedMove =>
           /\ EdgeSet(explored_locations') = EdgeSet(explored_locations)
           /\ DOMAIN explored_locations' =
                  DOMAIN explored_locations \cup {current_location}
           /\ \A k \in DOMAIN explored_locations :
                  explored_locations'[k] = explored_locations[k]
           /\ MapText'.explored
           /\ \E i \in 1..Len(MapText'.locations) :
                  /\ MapText'.locations[i].name = current_location
                  /\ MapText'.locations[i].exits =
                         Sorted(explored_locations'[current_location])]_vars

\* a blocked north in a session that had explored nothing: the location is
\* now a key without edges
C17_Witness ==
    /\ call.op = "play_action"
    /\ response.kind = "play_action"
    /\ call.arg = North
    /\ before.location = current_location
    /\ before.graph = <<>>
    /\ DOMAIN explored_locations = {current_location}
    /\ explored_locations[current_location] = {}

\* C18: a load that returns an error report, for an unknown slot or because
\* set_state or the look step raised, leaves the engine, the cached
\* transition and the location as they were before the call.
C18_FailedLoadChangesNothing ==
    [][(call'.op = "load_state" /\ response'.kind \in {"not_found", "error"})
           => UNCHANGED <<env, state, current_location>>]_vars

\* the first line of text that is not the empty line, as it stands
FirstNonEmptyLine(observation) ==
    LET lines == Split(observation, NL)
        i == CHOOSE k \in 1..Len(lines) :
                 lines[k] # <<>> /\ \A j \in 1..(k - 1) : lines[j] = <<>>
    IN  lines[i]

HasNonEmptyLine(observation) ==
    \E k \in 1..Len(observation) : observation[k] # NL

\* C19 as stated: the location is the first non-empty line of the cached
\* transition's observation.
C19_AsStated ==
    HasNonEmptyLine(state.observation)
        => current_location = FirstNonEmptyLine(state.observation)

\* from the first character of the observation that is not whitespace up to
\* the line break after it, or up to the last character that is not
\* whitespace if no line break comes before that one
StrippedFirstLine(observation) ==
    LET ink == {i \in 1..Len(observation) : observation[i] \notin Whitespace}
    IN  IF ink = {} THEN <<>>
        ELSE LET lo == CHOOSE i \in ink : \A j \in ink : i <= j
                 hi == CHOOSE i \in ink : \A j \in ink : j <= i
                 breaks == {i \in lo..hi : observation[i] = NL}
                 stop == IF breaks = {} THEN hi
                         ELSE (CHOOSE i \in breaks : \A j \in breaks : i <= j) - 1
             IN  SubSeq(observation, lo, stop)

\* C19: in every reachable state the location is derived from the cached
\* transition's observation: it is the first line of the observation stripped
\* of surrounding whitespace, so blank lines and whitespace before the first
\* text are dropped and whitespace after that line is kept when text follows.
C19_LocationTracksObservation ==
    current_location = StrippedFirstLine(state.observation)

\* after a call, the location of an observation that opens with whitespace
C19_Witness ==
    /\ call.op \in {"play_action", "save_state", "load_state"}
    /\ state.observation # <<>>
    /\ state.observation[1] \in Whitespace
    /\ current_location # <<>>
    /\ current_location # FirstNonEmptyLine(state.observation)

\* C20: a take_action whose engine step raised leaves the cached transition,
\* the location, the history, the graph and the slots as they were: the
\* failed action is not recorded and adds neither an edge nor a key.
C20_FailedStepChangesNothing ==
    [][(call'.op = "play_action" /\ response'.kind = "raised") =>
           UNCHANGED <<state, current_location, history, explored_locations,
                       saved_states, log>>]_vars

\* a raising north in a session with history and a slot, from a location that
\* is not in the graph
C20_Witness ==
    /\ call.op = "play_action"
    /\ call.arg = North
    /\ response.kind = "raised"
    /\ history # <<>>
    /\ DOMAIN saved_states # {}
    /\ current_location \notin DOMAIN explored_locations

====
